---------------------------- MODULE Spec2Model ----------------------------
(***************************************************************************)
(* Helix X Validator: the validation pipeline of HelixValidator            *)
(* (src/src/validator.ts) with its schema checker (src/src/rules/schema.ts)*)
(* and rule engine (src/src/rules/ruleset.ts), and the validator's         *)
(* configuration cache.                                                    *)
(*                                                                         *)
(* A JavaScript string is a sequence of one-character strings.  A          *)
(* JavaScript value is a record [t, n, s]: t is its type, n its number     *)
(* (1/0 for a boolean, the count of own keys for an object or an array)    *)
(* and s its characters when it is a string.                               *)
(***************************************************************************)
EXTENDS Integers, Sequences, FiniteSets, TLC

(***************************************************************************)
(* Characters and strings                                                  *)
(***************************************************************************)
LowerSeq ==
  << "a", "b", "c", "d", "e", "f", "g", "h", "i", "j", "k", "l", "m",
     "n", "o", "p", "q", "r", "s", "t", "u", "v", "w", "x", "y", "z" >>

UpperSeq ==
  << "A", "B", "C", "D", "E", "F", "G", "H", "I", "J", "K", "L", "M",
     "N", "O", "P", "Q", "R", "S", "T", "U", "V", "W", "X", "Y", "Z" >>

DigitSeq == << "0", "1", "2", "3", "4", "5", "6", "7", "8", "9" >>

Range(f) == { f[i] : i \in DOMAIN f }

IsLower(ch) == ch \in Range(LowerSeq)
IsUpper(ch) == ch \in Range(UpperSeq)
IsDigit(ch) == ch \in Range(DigitSeq)
IsAlnum(ch) == IsLower(ch) \/ IsUpper(ch) \/ IsDigit(ch)

\* String.prototype.toLowerCase, one character
ToLowerChar(ch) ==
  IF IsUpper(ch)
    THEN LowerSeq[CHOOSE i \in DOMAIN UpperSeq : UpperSeq[i] = ch]
    ELSE ch

\* String.prototype.toLowerCase
ToLowerCase(str) == [i \in 1..Len(str) |-> ToLowerChar(str[i])]

\* String.prototype.includes
Includes(str, pat) ==
  \E i \in 1..(Len(str) - Len(pat) + 1) : SubSeq(str, i, i + Len(pat) - 1) = pat

\* n copies of the character ch
Repeat(ch, n) == [i \in 1..n |-> ch]

(***************************************************************************)
(* JavaScript values                                                       *)
(***************************************************************************)
Undefined == [t |-> "undefined", n |-> 0, s |-> << >>]
Null      == [t |-> "null", n |-> 0, s |-> << >>]
Num(k)    == [t |-> "number", n |-> k, s |-> << >>]
Bool(b)   == [t |-> "boolean", n |-> IF b THEN 1 ELSE 0, s |-> << >>]
Str(str)  == [t |-> "string", n |-> 0, s |-> str]
\* an object / an array with k own keys
Obj(k)    == [t |-> "object", n |-> k, s |-> << >>]
Arr(k)    == [t |-> "array", n |-> k, s |-> << >>]

\* ToBoolean: what `!v` and `v && ...` test
Truthy(v) ==
  CASE v.t \in {"undefined", "null"} -> FALSE
    [] v.t \in {"number", "boolean"} -> v.n # 0
    [] v.t = "string" -> Len(v.s) > 0
    [] OTHER -> TRUE

\* typeof v
TypeOf(v) ==
  CASE v.t \in {"null", "array", "object"} -> "object"
    [] OTHER -> v.t

\* The rules value: a JavaScript value with, for an object or an array, its
\* own entries e (key k, value v) in Object.keys order.
NoRules == [t |-> "undefined", n |-> 0, s |-> << >>, e |-> << >>]
RulesNull == [t |-> "null", n |-> 0, s |-> << >>, e |-> << >>]
RulesNum(k) == [t |-> "number", n |-> k, s |-> << >>, e |-> << >>]
RulesBool(b) == [t |-> "boolean", n |-> IF b THEN 1 ELSE 0, s |-> << >>, e |-> << >>]
RulesStr(str) == [t |-> "string", n |-> 0, s |-> str, e |-> << >>]
RulesObj(entries) == [t |-> "object", n |-> Len(entries), s |-> << >>, e |-> entries]
RulesArr(items) ==
  [t |-> "array", n |-> Len(items), s |-> << >>,
   e |-> [i \in 1..Len(items) |-> [k |-> << DigitSeq[i] >>, v |-> items[i]]]]

Rule(key, value) == [k |-> key, v |-> value]

\* The own enumerable entries of a rules value: Object.keys(rules) and
\* rules[key].  A string has its indices as keys and its characters as values;
\* a number or a boolean has none.
OwnEntries(rules) ==
  CASE rules.t \in {"object", "array"} -> rules.e
    [] rules.t = "string" ->
         [i \in 1..Len(rules.s) |-> [k |-> << DigitSeq[i] >>, v |-> Str(<< rules.s[i] >>)]]
    [] OTHER -> << >>

\* A parsed document: t is the type of the JSON value itself.
Config(name, version, rules, metadata) ==
  [t |-> "object", name |-> name, version |-> version, rules |-> rules,
   metadata |-> metadata]

\* a JSON value that is not an object (null, a number, ...): it has no fields
NonObject(type) ==
  [t |-> type, name |-> Undefined, version |-> Undefined, rules |-> NoRules,
   metadata |-> Undefined]

(***************************************************************************)
(* Issues                                                                  *)
(***************************************************************************)
Issue(path, message, severity, rule) ==
  [path |-> path, message |-> message, severity |-> severity, rule |-> rule]

\* `rules.${key}`
RulePath(key) == << "rules." >> \o key

(***************************************************************************)
(* schema.ts                                                               *)
(***************************************************************************)
maxNameLength == 64
maxVersionLength == 32

\* /^[a-z0-9][a-z0-9-]*[a-z0-9]$|^[a-z0-9]$/i
nameRegex(str) ==
  /\ Len(str) >= 1
  /\ IsAlnum(str[1])
  /\ IsAlnum(str[Len(str)])
  /\ \A i \in 1..Len(str) : IsAlnum(str[i]) \/ str[i] = "-"

\* [a-zA-Z0-9-]+
IsIdent(str) ==
  /\ Len(str) >= 1
  /\ \A i \in 1..Len(str) : IsAlnum(str[i]) \/ str[i] = "-"

\* \d+
IsDigits(str) == Len(str) >= 1 /\ \A i \in 1..Len(str) : IsDigit(str[i])

\* (-[a-zA-Z0-9-]+)?(\+[a-zA-Z0-9-]+)?$
SemverTail(str) ==
  \/ str = << >>
  \/ /\ str[1] = "-"
     /\ \/ IsIdent(Tail(str))
        \/ \E m \in 2..Len(str) :
             /\ str[m] = "+"
             /\ IsIdent(SubSeq(str, 2, m - 1))
             /\ IsIdent(SubSeq(str, m + 1, Len(str)))
  \/ /\ str[1] = "+"
     /\ IsIdent(Tail(str))

\* /^\d+\.\d+\.\d+(-[a-zA-Z0-9-]+)?(\+[a-zA-Z0-9-]+)?$/
semverRegex(str) ==
  \E i, j, k \in 1..Len(str) :
    /\ i < j /\ j < k
    /\ str[i] = "." /\ str[j] = "."
    /\ IsDigits(SubSeq(str, 1, i - 1))
    /\ IsDigits(SubSeq(str, i + 1, j - 1))
    /\ IsDigits(SubSeq(str, j + 1, k))
    /\ SemverTail(SubSeq(str, k + 1, Len(str)))

\* the name checks with a missing name reported as a warning
NameIssues_RequiredAsWarn(config) ==
  IF ~Truthy(config.name)
    THEN << Issue(<< "name" >>, << "Config name is required." >>, "warn",
                  "schema/name-required") >>
  ELSE IF TypeOf(config.name) # "string"
    THEN << Issue(<< "name" >>, << "Config name must be a string." >>, "error",
                  "schema/name-type") >>
  ELSE (IF Len(config.name.s) > maxNameLength
          THEN << Issue(<< "name" >>, << "Config name exceeds maximum length." >>,
                        "error", "schema/name-length") >>
          ELSE << >>)
       \o
       (IF ~nameRegex(config.name.s)
          THEN << Issue(<< "name" >>, << "Config name has an invalid format." >>,
                        "error", "schema/name-format") >>
          ELSE << >>)

NameIssues(config) ==
  IF ~Truthy(config.name)
    THEN << Issue(<< "name" >>, << "Config name is required." >>, "error",
                  "schema/name-required") >>
  ELSE IF TypeOf(config.name) # "string"
    THEN << Issue(<< "name" >>, << "Config name must be a string." >>, "error",
                  "schema/name-type") >>
  ELSE (IF Len(config.name.s) > maxNameLength
          THEN << Issue(<< "name" >>, << "Config name exceeds maximum length." >>,
                        "error", "schema/name-length") >>
          ELSE << >>)
       \o
       (IF ~nameRegex(config.name.s)
          THEN << Issue(<< "name" >>, << "Config name has an invalid format." >>,
                        "error", "schema/name-format") >>
          ELSE << >>)

VersionIssues(config) ==
  IF config.version.t = "undefined" THEN << >>
  ELSE IF TypeOf(config.version) # "string"
    THEN << Issue(<< "version" >>, << "Version must be a string." >>, "error",
                  "schema/version-type") >>
  ELSE (IF Len(config.version.s) > maxVersionLength
          THEN << Issue(<< "version" >>, << "Version exceeds maximum length." >>,
                        "warn", "schema/version-length") >>
          ELSE << >>)
       \o
       (IF ~semverRegex(config.version.s)
          THEN << Issue(<< "version" >>, << "Version should follow semver format." >>,
                        "warn", "schema/version-semver") >>
          ELSE << >>)

\* the rules checks with missing rules reported as empty rules
RulesIssues_MissingAsEmpty(config) ==
  IF ~Truthy(config.rules)
    THEN << Issue(<< "rules" >>, << "Rules section cannot be empty." >>, "warn",
                  "schema/rules-empty") >>
  ELSE IF TypeOf(config.rules) # "object" \/ config.rules.t = "array"
    THEN << Issue(<< "rules" >>, << "Rules section must be an object." >>, "error",
                  "schema/rules-object") >>
  ELSE IF Len(OwnEntries(config.rules)) = 0
    THEN << Issue(<< "rules" >>, << "Rules section cannot be empty." >>, "warn",
                  "schema/rules-empty") >>
  ELSE << >>

RulesIssues(config) ==
  IF ~Truthy(config.rules)
    THEN << Issue(<< "rules" >>, << "Rules section is required." >>, "error",
                  "schema/rules-required") >>
  ELSE IF TypeOf(config.rules) # "object" \/ config.rules.t = "array"
    THEN << Issue(<< "rules" >>, << "Rules section must be an object." >>, "error",
                  "schema/rules-object") >>
  ELSE IF Len(OwnEntries(config.rules)) = 0
    THEN << Issue(<< "rules" >>, << "Rules section cannot be empty." >>, "warn",
                  "schema/rules-empty") >>
  ELSE << >>

\* the metadata check that also reports an absent metadata
MetadataIssues_Required(config) ==
  IF \/ TypeOf(config.metadata) # "object"
     \/ config.metadata.t = "array"
     \/ config.metadata.t = "null"
    THEN << Issue(<< "metadata" >>, << "Metadata must be an object if provided." >>,
                  "warn", "schema/metadata-type") >>
    ELSE << >>

MetadataIssues(config) ==
  IF /\ config.metadata.t # "undefined"
     /\ \/ TypeOf(config.metadata) # "object"
        \/ config.metadata.t = "array"
        \/ config.metadata.t = "null"
    THEN << Issue(<< "metadata" >>, << "Metadata must be an object if provided." >>,
                  "warn", "schema/metadata-type") >>
    ELSE << >>

\* the schema checks with the version, rules and metadata checks skipped
\* when the name check reports
validateSchema_StopsAtName(config) ==
  IF NameIssues(config) # << >> THEN NameIssues(config)
  ELSE NameIssues(config) \o VersionIssues(config) \o RulesIssues(config)
         \o MetadataIssues(config)

\* validateSchema(config) for a config that is not null: reading a property
\* of null throws (see ValidateThrows)
validateSchema(config) ==
  NameIssues(config) \o VersionIssues(config) \o RulesIssues(config)
    \o MetadataIssues(config)

(***************************************************************************)
(* ruleset.ts                                                              *)
(***************************************************************************)
RESERVED_NAMES ==
  { << "d", "e", "f", "a", "u", "l", "t" >>,
    << "s", "y", "s", "t", "e", "m" >>,
    << "c", "o", "r", "e" >>,
    << "i", "n", "t", "e", "r", "n", "a", "l" >>,
    << "r", "o", "o", "t" >>,
    << "a", "d", "m", "i", "n" >> }

MAX_RULE_KEY_LENGTH == 128
MAX_RULES_COUNT == 1000

DEPRECATED_PATTERNS ==
  << << "l", "e", "g", "a", "c", "y" >>,
     << "o", "l", "d" >>,
     << "d", "e", "p", "r", "e", "c", "a", "t", "e", "d" >> >>

\* /^[a-zA-Z0-9_][a-zA-Z0-9_\-.]*$/
keyFormatRegex(key) ==
  /\ Len(key) >= 1
  /\ IsAlnum(key[1]) \/ key[1] = "_"
  /\ \A i \in 1..Len(key) : IsAlnum(key[i]) \/ key[i] \in {"_", "-", "."}

\* The loop of findDuplicates from values[i] on: seen is the set of the
\* normalized values met so far, dup the normalized values met twice, in the
\* order in which the Set dup received them.
RECURSIVE FindDuplicatesFrom(_, _, _, _)
FindDuplicatesFrom(values, i, seen, dup) ==
  IF i > Len(values) THEN dup
  ELSE LET normalized == ToLowerCase(values[i])
       IN  IF normalized \in seen
             THEN FindDuplicatesFrom(values, i + 1, seen,
                    IF normalized \in Range(dup) THEN dup ELSE Append(dup, normalized))
             ELSE FindDuplicatesFrom(values, i + 1, seen \cup {normalized}, dup)

\* a findDuplicates that reports every collision with an earlier key
findDuplicates_EveryCollision(values) ==
  LET later == SelectSeq([i \in 1..Len(values) |-> i],
                         LAMBDA i : \E j \in 1..(i - 1) :
                                      ToLowerCase(values[j]) = ToLowerCase(values[i]))
  IN  [m \in 1..Len(later) |-> ToLowerCase(values[later[m]])]

findDuplicates(values) == FindDuplicatesFrom(values, 1, {}, << >>)

\* Object.keys(rules), where rules = config.rules ?? {}
RuleKeys(config) ==
  LET entries == OwnEntries(config.rules)
  IN  [i \in 1..Len(entries) |-> entries[i].k]

\* the reserved-name check without the case folding
ReservedNameIssues_CaseSensitive(config) ==
  IF Truthy(config.name) /\ config.name.s \in RESERVED_NAMES
    THEN << Issue(<< "name" >>, << "Name is reserved: " >> \o config.name.s, "error",
                  "ruleset/reserved-name") >>
    ELSE << >>

ReservedNameIssues(config) ==
  IF Truthy(config.name) /\ ToLowerCase(config.name.s) \in RESERVED_NAMES
    THEN << Issue(<< "name" >>, << "Name is reserved: " >> \o config.name.s, "error",
                  "ruleset/reserved-name") >>
    ELSE << >>

MaxRulesIssues(config, maxRules) ==
  IF Len(RuleKeys(config)) > maxRules
    THEN << Issue(<< "rules" >>, << "Too many rules." >>, "error", "ruleset/max-rules") >>
    ELSE << >>

DuplicateIssues(config) ==
  LET duplicates == findDuplicates(RuleKeys(config))
  IN  [i \in 1..Len(duplicates) |->
         Issue(RulePath(duplicates[i]), << "Duplicate rule key " >> \o duplicates[i],
               "warn", "ruleset/duplicate-rule")]

\* the body of the loop over ruleKeys, for one key
KeyIssues(key) ==
  (IF Len(key) > MAX_RULE_KEY_LENGTH
     THEN << Issue(RulePath(key), << "Rule key exceeds maximum length: " >> \o key,
                   "error", "ruleset/key-length") >>
     ELSE << >>)
  \o
  (IF ~keyFormatRegex(key)
     THEN << Issue(RulePath(key), << "Rule key contains invalid characters: " >> \o key,
                   "error", "ruleset/key-format") >>
     ELSE << >>)
  \o
  (IF \E p \in DOMAIN DEPRECATED_PATTERNS : Includes(ToLowerCase(key), DEPRECATED_PATTERNS[p])
     THEN << Issue(RulePath(key), << "Rule key uses deprecated naming: " >> \o key,
                   "info", "ruleset/deprecated-pattern") >>
     ELSE << >>)

RECURSIVE AllKeyIssuesFrom(_, _)
AllKeyIssuesFrom(keys, i) ==
  IF i > Len(keys) THEN << >>
  ELSE KeyIssues(keys[i]) \o AllKeyIssuesFrom(keys, i + 1)

\* an emptiness test that knows null and undefined only
IsEmptyValue_NullOnly(value) == value.t \in {"null", "undefined"}

\* value === null || value === undefined ||
\*   (typeof value === "object" && Object.keys(value).length === 0)
IsEmptyValue(value) ==
  \/ value.t \in {"null", "undefined"}
  \/ value.t \in {"object", "array"} /\ value.n = 0

RECURSIVE EmptyValueIssuesFrom(_, _)
EmptyValueIssuesFrom(entries, i) ==
  IF i > Len(entries) THEN << >>
  ELSE (IF IsEmptyValue(entries[i].v)
          THEN << Issue(RulePath(entries[i].k),
                        << "Rule has an empty value: " >> \o entries[i].k,
                        "warn", "ruleset/strict-empty-value") >>
          ELSE << >>)
       \o EmptyValueIssuesFrom(entries, i + 1)

\* the strict additions run whatever the ruleset
StrictIssues_AnyRuleset(config, rulesetName) ==
  (IF Len(RuleKeys(config)) = 0
     THEN << Issue(<< "rules" >>, << "Strict ruleset requires at least one rule." >>,
                   "error", "ruleset/strict-min-rules") >>
     ELSE << >>)
  \o EmptyValueIssuesFrom(OwnEntries(config.rules), 1)

StrictIssues(config, rulesetName) ==
  IF rulesetName = "strict"
    THEN (IF Len(RuleKeys(config)) = 0
            THEN << Issue(<< "rules" >>, << "Strict ruleset requires at least one rule." >>,
                          "error", "ruleset/strict-min-rules") >>
            ELSE << >>)
         \o EmptyValueIssuesFrom(OwnEntries(config.rules), 1)
    ELSE << >>

\* evaluateRules(config, {name: rulesetName}) for a config on which it does
\* not throw (see ValidateThrows)
evaluateRules(config, rulesetName) ==
  ReservedNameIssues(config)
    \o MaxRulesIssues(config, MAX_RULES_COUNT)
    \o DuplicateIssues(config)
    \o AllKeyIssuesFrom(RuleKeys(config), 1)
    \o StrictIssues(config, rulesetName)

(***************************************************************************)
(* validator.ts: the pure part                                             *)
(***************************************************************************)
\* this.options: strict is TRUE or unset (FALSE); ruleset and format are a
\* string or NotSet
NotSet == "<undefined>"

Options(strict, ruleset, format) ==
  [strict |-> strict, ruleset |-> ruleset, format |-> format]

\* this.options.format ?? "text"
FormatOf(opts) == IF opts.format = NotSet THEN "text" ELSE opts.format

\* JSON.stringify of an issue: its members, in the order of the object
\* literal that built it, each a key with its value
IssueMembers(issue) ==
  << << "path", issue.path >>, << "message", issue.message >>,
     << "severity", issue.severity >>, << "rule", issue.rule >> >>

\* Reading a parsed object: whether it has the property key, and its value
\* (undefined when it has not)
HasMember(members, key) == \E i \in DOMAIN members : members[i][1] = key
Member(members, key) ==
  IF HasMember(members, key)
    THEN members[CHOOSE i \in DOMAIN members : members[i][1] = key][2]
    ELSE NotSet

CountSeverity(issues, severity) ==
  Cardinality({ i \in DOMAIN issues : issues[i].severity = severity })

\* a summary that counts every issue as an error
buildSummary_ErrorsAsTotal(issues) ==
  [errors |-> Len(issues),
   warnings |-> CountSeverity(issues, "warn"),
   infos |-> CountSeverity(issues, "info"),
   total |-> Len(issues)]

buildSummary(issues) ==
  [errors |-> CountSeverity(issues, "error"),
   warnings |-> CountSeverity(issues, "warn"),
   infos |-> CountSeverity(issues, "info"),
   total |-> Len(issues)]

\* computeOk without its options.strict branch
computeOk_IgnoresStrict(issues, opts) ==
  IF \E i \in DOMAIN issues : issues[i].severity = "error" THEN FALSE
  ELSE TRUE

computeOk(issues, opts) ==
  IF \E i \in DOMAIN issues : issues[i].severity = "error" THEN FALSE
  ELSE IF opts.strict /\ \E i \in DOMAIN issues : issues[i].severity = "warn" THEN FALSE
  ELSE TRUE

\* render(summary, issues, format): the rendered text.  The JSON text is the
\* serialized object: its members, in order, each a key with its value; the
\* plain text is the header with its three counts and one line per issue.
render(summary, issues, format) ==
  IF format = "json"
    THEN [format |-> "json",
          members |-> << "summary", "issues" >>,
          summary |-> << << "errors", summary.errors >>,
                         << "warnings", summary.warnings >>,
                         << "infos", summary.infos >>,
                         << "total", summary.total >> >>,
          issues |-> [i \in DOMAIN issues |-> IssueMembers(issues[i])]]
    ELSE [format |-> "text",
          members |-> << "header" >> \o (IF Len(issues) > 0 THEN << "body" >> ELSE << >>),
          summary |-> << << "errors", summary.errors >>,
                         << "warnings", summary.warnings >>,
                         << "info", summary.infos >> >>,
          issues |-> issues]

\* JSON.parse(result.summary): the plain text is not JSON and makes it throw
\* a SyntaxError; the JSON text gives back an object with the members it
\* serialized, the issues as objects again
SummaryParseThrows(rendered) == rendered.format # "json"

ParseSummary(rendered) ==
  [members |-> rendered.members,
   summary |-> rendered.summary,
   issues |-> [i \in DOMAIN rendered.issues |->
                 Issue(Member(rendered.issues[i], "path"),
                       Member(rendered.issues[i], "message"),
                       Member(rendered.issues[i], "severity"),
                       Member(rendered.issues[i], "rule"))]]

\* Whether validateConfig(config) throws a TypeError: validateSchema reads
\* config.name of null, and evaluateRules calls config.name.toLowerCase() on
\* a truthy name, which only a string has.
ValidateThrows(config) ==
  \/ config.t \in {"null", "undefined"}
  \/ Truthy(config.name) /\ TypeOf(config.name) # "string"

\* What a call ends with: a ValidationResult (kind "result"), a thrown
\* exception (kind "throw", its error in the field error), or nothing yet.
\* validateConfig sets elapsedMs to 0; validateFile puts Date.now() - started
\* in its place, a measurement that the model keeps as the flag timed.
NoIssues == << >>
NoSummary == [format |-> NotSet, members |-> << >>, summary |-> << >>, issues |-> << >>]

NoOutcome ==
  [kind |-> "none", ok |-> FALSE, issues |-> NoIssues, summary |-> NoSummary,
   elapsedMs |-> 0, timed |-> FALSE, format |-> NotSet, error |-> NotSet]

Thrown(error) == [NoOutcome EXCEPT !.kind = "throw", !.error = error]

ValidationResult(ok, issues, summary, elapsedMs, timed, format) ==
  [kind |-> "result", ok |-> ok, issues |-> issues, summary |-> summary,
   elapsedMs |-> elapsedMs, timed |-> timed, format |-> format, error |-> NotSet]

validateConfig(config, opts) ==
  IF ValidateThrows(config) THEN Thrown("TypeError")
  ELSE LET issues == validateSchema(config) \o evaluateRules(config, opts.ruleset)
           format == FormatOf(opts)
       IN  ValidationResult(computeOk(issues, opts), issues,
                            render(buildSummary(issues), issues, format), 0, FALSE,
                            format)

\* the load-error result rendered as text whatever options.format
LoadErrorResult_AlwaysText(error, opts) ==
  LET issue == Issue(<< "$file" >>, << "Failed to load config: ", error >>, "error",
                     "io/load-error")
  IN  ValidationResult(FALSE, << issue >>,
                       render(buildSummary(<< issue >>), << issue >>, "text"),
                       0, TRUE, "text")

\* the result validateFile builds when loadConfig throws error
LoadErrorResult(error, opts) ==
  LET issue == Issue(<< "$file" >>, << "Failed to load config: ", error >>, "error",
                     "io/load-error")
      format == FormatOf(opts)
  IN  ValidationResult(FALSE, << issue >>,
                       render(buildSummary(<< issue >>), << issue >>, format),
                       0, TRUE, format)

(***************************************************************************)
(* Documents and files                                                     *)
(***************************************************************************)
\* {name: "svc-a", version: "1.0.0", rules: {r1: {}}}
DocClean ==
  Config(Str(<< "s", "v", "c", "-", "a" >>), Str(<< "1", ".", "0", ".", "0" >>),
         RulesObj(<< Rule(<< "r", "1" >>, Obj(0)) >>), Undefined)

\* {name: "svc-a", version: "invalid", rules: {R1: {a: 1}, r1: {a: 1}}}
DocWarn ==
  Config(Str(<< "s", "v", "c", "-", "a" >>),
         Str(<< "i", "n", "v", "a", "l", "i", "d" >>),
         RulesObj(<< Rule(<< "R", "1" >>, Obj(1)), Rule(<< "r", "1" >>, Obj(1)) >>),
         Undefined)

\* {name: "svc-a", rules: {"old-rule": {a: 1}}}
DocInfo ==
  Config(Str(<< "s", "v", "c", "-", "a" >>), Undefined,
         RulesObj(<< Rule(<< "o", "l", "d", "-", "r", "u", "l", "e" >>, Obj(1)) >>),
         Undefined)

\* {metadata: []}
DocError == Config(Undefined, Undefined, NoRules, Arr(0))

\* null
DocNull == NonObject("null")

\* {name: 5, rules: {r1: {a: 1}}}
DocNumName ==
  Config(Num(5), Undefined, RulesObj(<< Rule(<< "r", "1" >>, Obj(1)) >>), Undefined)

\* The text of a file: whether it is well-formed JSON, and the value it
\* denotes then.
JsonText(config) == [syntaxOk |-> TRUE, value |-> config]
Malformed == [syntaxOk |-> FALSE, value |-> NonObject("undefined")]

\* JSON.parse(text) throws a SyntaxError on a malformed text
ParseThrows(text) == ~text.syntaxOk
JSONParse(text) == text.value

(***************************************************************************)
(* Bounds                                                                  *)
(***************************************************************************)
\* the resolved paths are 1..NumPaths
NumPaths == 3
\* the concurrent callers of validateFile
NumCalls == 2
\* the file of a volatile path is written at most MaxMtime times
MaxMtime == 1
\* the clock runs to MaxEpoch time-to-live periods
MaxEpoch == 1
\* maxCacheSize: validator.ts:24 sets 50; the model scales the capacity down
\* so that a full cache and an eviction are within reach
maxCacheSize == 2

cacheTtl == 5000

Paths == 1..NumPaths
Procs == 1..NumCalls

\* The paths whose file changes while the validator runs; the other paths
\* hold a regular file that stays as it is.
Volatile == {1}

\* The texts written to a volatile file
WrittenTexts == { Malformed, JsonText(DocNull), JsonText(DocInfo) }

StableText(p) == IF p % 2 = 0 THEN JsonText(DocWarn) ELSE JsonText(DocNumName)

\* The file names a caller passes: one name per path, and a second name
\* for path 1 ("./a.json" beside "a.json").
FilePaths == 1..(NumPaths + 1)

\* path.resolve(filePath)
Resolve(filePath) == IF filePath > NumPaths THEN 1 ELSE filePath

\* the documents passed to validateConfig directly
Docs == { DocClean, DocWarn, DocInfo, DocError, DocNull, DocNumName }

(***************************************************************************)
(* The documents on which validateConfig, validateSchema and evaluateRules *)
(* are applied one by one: every combination of the values below           *)
(***************************************************************************)
LongName == Str(Repeat("a", maxNameLength + 1))
LongKey == Repeat("k", MAX_RULE_KEY_LENGTH + 1)
\* "1.0.0-" and 27 more characters: valid semver of 33 characters
LongVersion == Str(<< "1", ".", "0", ".", "0", "-" >> \o Repeat("b", maxVersionLength - 5))

NameValues ==
  { Undefined, Null, Num(0), Num(5), Bool(FALSE), Obj(0),
    Str(<< >>),
    Str(<< "s", "v", "c", "-", "a" >>),
    Str(<< "-", "b", "a", "d" >>),
    Str(<< "D", "e", "f", "a", "u", "l", "t" >>),
    Str(<< "a", "d", "m", "i", "n", "s" >>),
    LongName }

VersionValues ==
  { Undefined, Str(<< "1", ".", "0", ".", "0" >>),
    Str(<< "i", "n", "v", "a", "l", "i", "d" >>), LongVersion }

RulesValues ==
  { NoRules, RulesNull, RulesNum(0), RulesNum(5), RulesBool(FALSE), RulesBool(TRUE),
    RulesStr(<< >>), RulesStr(<< "a", "b" >>),
    RulesArr(<< >>), RulesArr(<< Obj(0) >>),
    RulesObj(<< >>),
    RulesObj(<< Rule(<< "r", "1" >>, Obj(1)) >>),
    RulesObj(<< Rule(<< "r", "1" >>, Obj(0)) >>),
    RulesObj(<< Rule(<< "r", "1" >>, Null), Rule(<< "r", "2" >>, Arr(0)),
                Rule(<< "r", "3" >>, Num(0)) >>),
    RulesObj(<< Rule(<< "R", "u", "l", "e", "1" >>, Obj(1)),
                Rule(<< "r", "u", "l", "e", "1" >>, Obj(1)),
                Rule(<< "R", "U", "L", "E", "1" >>, Obj(1)) >>),
    RulesObj(<< Rule(<< "A" >>, Obj(1)), Rule(<< "b" >>, Obj(1)),
                Rule(<< "a" >>, Obj(1)), Rule(<< "B" >>, Obj(1)),
                Rule(<< "c" >>, Obj(1)) >>),
    RulesObj(<< Rule(<< "A", "b" >>, Obj(1)), Rule(<< "A", "B" >>, Obj(1)) >>),
    RulesObj(<< Rule(<< "b", "a", "d", " ", "k", "e", "y" >>, Obj(1)) >>),
    RulesObj(<< Rule(<< "O", "L", "D", "_", "x" >>, Obj(1)) >>),
    RulesObj(<< Rule(LongKey, Obj(1)) >>) }

MetadataValues == { Undefined, Obj(1), Str(<< "x" >>) }

DocSpace ==
  { Config(name, version, rules, metadata) :
      name \in NameValues, version \in VersionValues,
      rules \in RulesValues, metadata \in MetadataValues }

AllOptions ==
  { Options(st, rs, fm) : st \in BOOLEAN, rs \in {NotSet, "strict", "basic"},
                          fm \in {NotSet, "text", "json"} }

\* the options of the validator whose cache is explored
FileOptions == { Options(FALSE, NotSet, NotSet), Options(TRUE, "strict", "json") }

\* how far the clock moves between two observations
TickSteps == { cacheTtl - 1, cacheTtl }

(***************************************************************************)
(* State                                                                   *)
(***************************************************************************)
VARIABLES
  options,   \* this.options, set by the constructor
  cache,     \* this.cache: the entries of the Map, in insertion order
  clock,     \* Date.now()
  fs,        \* the file system: per path, the kind of file, its mtime and text
  calls,     \* per caller, where its call stands and what it ended with
  registry   \* the PluginRegistry: its plugins and its validateAll call

vars == << options, cache, clock, fs, calls, registry >>

(***************************************************************************)
(* PluginRegistry                                                          *)
(***************************************************************************)
\* the plugins that may be registered are NumPlugins, named p0, p1, ...
NumPlugins == 3

PluginNames == { << "p", DigitSeq[i] >> : i \in 1..NumPlugins }

\* What plugin.validate(config) ends with, whether it does so at once or
\* through its promise: kind "returns" with the value returned (for an array
\* of issues, the issues), kind "throws" with the value thrown or rejected
\* with.  An Error is a value of type "error" with its message in s.
PluginResults ==
  LET issues ==
        << Issue(<< "rules.a" >>, << "Rule key does not follow naming convention" >>,
                 "warn", << "naming-convention" >>),
           Issue(<< "name" >>, << "Name is not allowed" >>, "error", << "owner" >>) >>
  IN  { [kind |-> "returns", value |-> Arr(0), issues |-> << >>],
        [kind |-> "returns", value |-> Arr(2), issues |-> issues],
        [kind |-> "returns", value |-> Undefined, issues |-> << >>],
        [kind |-> "throws", value |-> [t |-> "error", n |-> 0, s |-> << "boom" >>],
         issues |-> << >>],
        [kind |-> "throws", value |-> Str(<< "boom" >>), issues |-> << >>],
        [kind |-> "throws", value |-> Null, issues |-> << >>],
        [kind |-> "throws", value |-> Undefined, issues |-> << >>] }

\* this.plugins in insertion order, and the validateAll call: pc is "idle"
\* (none made), "await" (suspended at `await plugin.validate(config)` of the
\* plugin at cursor) or "done"; outcome is "resolved" with allIssues or
\* "rejected" with error.  thrown is the error of the last register call;
\* visited is history, the names and results of the plugins of this call.
EmptyRegistry ==
  [plugins |-> << >>, thrown |-> NotSet, pc |-> "idle", cursor |-> 0,
   allIssues |-> << >>, outcome |-> "none", error |-> NotSet, visited |-> << >>]

\* register(plugin): throws when the name is registered already
register(name) ==
  /\ registry.pc # "await"
  /\ registry' =
       IF \E i \in DOMAIN registry.plugins : registry.plugins[i] = name
         THEN [registry EXCEPT !.thrown = "already registered"]
         ELSE [registry EXCEPT !.plugins = Append(@, name), !.thrown = NotSet]
  /\ UNCHANGED << options, cache, clock, fs, calls >>

unregister(name) ==
  /\ registry.pc # "await"
  /\ registry' = [registry EXCEPT !.plugins = SelectSeq(@, LAMBDA n : n # name)]
  /\ UNCHANGED << options, cache, clock, fs, calls >>

\* clear()
clear ==
  /\ registry.pc # "await"
  /\ registry' = [registry EXCEPT !.plugins = << >>]
  /\ UNCHANGED << options, cache, clock, fs, calls >>

\* `${plugin.name}/${issue.rule}` on every issue the plugin returned
PrefixedIssues(name, issues) ==
  [i \in DOMAIN issues |-> [issues[i] EXCEPT !.rule = name \o << "/" >> \o @]]

\* the issue pushed by the catch block
PluginErrorIssue(name, message) ==
  Issue(<< "$plugin" >>, << "Plugin \"" >> \o name \o << "\" failed: " >> \o message,
        "error", << "plugin/" >> \o name \o << "/error" >>)

\* Whether the try block throws: validate threw or rejected, or it returned
\* a value that has no map method
TryFails(result) == result.kind = "throws" \/ result.value.t # "array"

\* validateAll(config) up to its first suspension, or to its return when no
\* plugin is registered
StartValidateAll ==
  /\ registry.pc # "await"
  /\ registry' =
       IF registry.plugins = << >>
         THEN [registry EXCEPT !.pc = "done", !.cursor = 0, !.allIssues = << >>,
                               !.outcome = "resolved", !.error = NotSet,
                               !.visited = << >>]
         ELSE [registry EXCEPT !.pc = "await", !.cursor = 1, !.allIssues = << >>,
                               !.outcome = "none", !.error = NotSet,
                               !.visited = << >>]
  /\ UNCHANGED << options, cache, clock, fs, calls >>

\* plugin.validate(config) of the plugin at the cursor ends with result: the
\* body of the loop, to the next suspension or to the end of validateAll
PluginSettles(result) ==
  LET name == registry.plugins[registry.cursor]
      last == registry.cursor = Len(registry.plugins)
      seen == Append(registry.visited, [name |-> name, result |-> result])
      \* the value caught: what validate threw, or the TypeError of issues.map
      error == IF result.kind = "throws" THEN result.value
               ELSE [t |-> "error", n |-> 0, s |-> << "issues.map is not a function" >>]
      \* (error as Error).message: reading a property of null or undefined
      \* throws a TypeError; an Error has its message; another value has none
      messageThrows == error.t \in {"null", "undefined"}
      message == IF error.t = "error" THEN error.s ELSE << "undefined" >>
      pushed ==
        IF TryFails(result)
          THEN Append(registry.allIssues, PluginErrorIssue(name, message))
          ELSE registry.allIssues \o PrefixedIssues(name, result.issues)
  IN  /\ registry.pc = "await"
      /\ registry' =
           IF TryFails(result) /\ messageThrows
             THEN [registry EXCEPT !.pc = "done", !.outcome = "rejected",
                                   !.error = "TypeError", !.visited = seen]
           ELSE IF last
             THEN [registry EXCEPT !.pc = "done", !.outcome = "resolved",
                                   !.allIssues = pushed, !.visited = seen]
           ELSE [registry EXCEPT !.cursor = @ + 1, !.allIssues = pushed,
                                 !.visited = seen]
      /\ UNCHANGED << options, cache, clock, fs, calls >>

\* A caller's call.  pc: "idle" (none made yet), "stat" and "read" (suspended
\* at `await stat` and at `await readFile`), "done" (ended, with outcome).
\* resolved, statsMtime (stats.mtimeMs), now and firstKey are the locals of
\* loadConfig.  History: op is the method called, firstTimestamp the
\* timestamp of the entry evicted under firstKey, lookup what the cache held
\* for the key ("absent", "hit", "expired", "stale"), didRead whether
\* readFile was called, config the document passed to validateConfig,
\* validateSchema or evaluateRules.
NoConfig == NonObject("undefined")

IdleCall ==
  [pc |-> "idle", op |-> NotSet, resolved |-> 0, statsMtime |-> 0, now |-> 0,
   firstKey |-> 0, firstTimestamp |-> 0, lookup |-> NotSet, didRead |-> FALSE,
   config |-> NoConfig, outcome |-> NoOutcome]

InFlight(c) == calls[c].pc \in {"stat", "read"}

\* the call as it ends: the locals are gone
DoneCall(call, outcome) ==
  [call EXCEPT !.pc = "done", !.statsMtime = 0, !.now = 0, !.firstTimestamp = 0,
               !.outcome = outcome]

\* What a cache entry remembers of the call that stored it (history, not
\* part of CacheEntry): what that call ended with.
Ended(outcome) == [kind |-> outcome.kind, ok |-> outcome.ok, issues |-> outcome.issues]

\* CacheEntry {config, timestamp, mtime} under its key.  History: born is
\* the time at which the key entered the Map, first what the storing call
\* ended with.
CacheEntry(key, config, timestamp, mtime, born, first) ==
  [key |-> key, config |-> config, timestamp |-> timestamp, mtime |-> mtime,
   born |-> born, first |-> first]

\* Map.prototype.has / get / delete / set / keys().next().value
CacheHas(map, key) == \E i \in DOMAIN map : map[i].key = key
CacheGet(map, key) == map[CHOOSE i \in DOMAIN map : map[i].key = key]
CacheDelete(map, key) == SelectSeq(map, LAMBDA e : e.key # key)
\* a set that moves a key the Map holds to the end
CacheSet_MovesToEnd(map, entry) ==
  IF CacheHas(map, entry.key)
    THEN Append(CacheDelete(map, entry.key),
                [entry EXCEPT !.born = CacheGet(map, entry.key).born])
    ELSE Append(map, entry)

\* set keeps the place of a key the Map holds and appends a new key
CacheSet(map, entry) ==
  IF CacheHas(map, entry.key)
    THEN [i \in DOMAIN map |->
            IF map[i].key = entry.key THEN [entry EXCEPT !.born = map[i].born] ELSE map[i]]
    ELSE Append(map, entry)
FirstKey(map) == IF Len(map) > 0 THEN map[1].key ELSE 0
CacheKeys(map) == { map[i].key : i \in DOMAIN map }

\* the test with a TTL read in seconds, without the mtime comparison, and
\* with an inclusive bound
IsFresh_TtlInSeconds(cached, now, mtimeMs) ==
  /\ now - cached.timestamp < cacheTtl \div 1000
  /\ cached.mtime = mtimeMs

IsFresh_IgnoresMtime(cached, now, mtimeMs) ==
  now - cached.timestamp < cacheTtl

IsFresh_Inclusive(cached, now, mtimeMs) ==
  /\ now - cached.timestamp <= cacheTtl
  /\ cached.mtime = mtimeMs

\* the test that also serves an entry older than the file
IsFresh_MtimeNotNewer(cached, now, mtimeMs) ==
  /\ now - cached.timestamp < cacheTtl
  /\ cached.mtime <= mtimeMs

\* loadConfig's test for serving the cached entry
IsFresh(cached, now, mtimeMs) ==
  /\ now - cached.timestamp < cacheTtl
  /\ cached.mtime = mtimeMs

\* what the lookup found (history)
Lookup(map, key, now, mtimeMs) ==
  IF ~CacheHas(map, key) THEN "absent"
  ELSE IF IsFresh(CacheGet(map, key), now, mtimeMs) THEN "hit"
  ELSE IF CacheGet(map, key).mtime # mtimeMs THEN "stale"
  ELSE "expired"

\* the size test with > for >=, and the eviction of the newest key
EvictedKey_OffByOne(map) == IF Len(map) > maxCacheSize THEN FirstKey(map) ELSE 0

EvictedKey_Newest(map) == IF Len(map) >= maxCacheSize THEN map[Len(map)].key ELSE 0

\* loadConfig's enforcement of the size limit: the key it evicts, 0 if none
EvictedKey(map) == IF Len(map) >= maxCacheSize THEN FirstKey(map) ELSE 0

Evict(map) ==
  IF EvictedKey(map) # 0 THEN CacheDelete(map, EvictedKey(map)) ELSE map

InitWith(optionSet) ==
  /\ options \in optionSet
  /\ cache = << >>
  /\ clock = 0
  /\ fs = [p \in Paths |->
             [kind |-> "file", mtime |-> 0,
              text |-> IF p \in Volatile THEN JsonText(DocClean) ELSE StableText(p)]]
  /\ calls = [c \in Procs |-> IdleCall]
  /\ registry = EmptyRegistry

Init == InitWith(FileOptions)

(***************************************************************************)
(* The environment: time and the files                                     *)
(***************************************************************************)
Tick(d) ==
  /\ clock + d <= MaxEpoch * cacheTtl
  /\ clock' = clock + d
  /\ UNCHANGED << registry, options, cache, fs, calls >>

\* a write gives the file a new, later modification time
WriteFile(p, text) ==
  /\ fs[p].kind \in {"file", "missing"}
  /\ fs[p].mtime < MaxMtime
  /\ fs' = [fs EXCEPT ![p] = [kind |-> "file", mtime |-> fs[p].mtime + 1, text |-> text]]
  /\ UNCHANGED << registry, options, cache, clock, calls >>

Unlink(p) ==
  /\ fs[p].kind \in {"file", "noperm"}
  /\ fs' = [fs EXCEPT ![p].kind = "missing"]
  /\ UNCHANGED << registry, options, cache, clock, calls >>

\* a directory takes the place of the removed file
Mkdir(p) ==
  /\ fs[p].kind = "missing"
  /\ fs' = [fs EXCEPT ![p].kind = "dir"]
  /\ UNCHANGED << registry, options, cache, clock, calls >>

\* the file loses or regains its read permission; its mtime stays
Chmod(p) ==
  /\ fs[p].kind \in {"file", "noperm"}
  /\ fs' = [fs EXCEPT ![p].kind = IF fs[p].kind = "file" THEN "noperm" ELSE "file"]
  /\ UNCHANGED << registry, options, cache, clock, calls >>

(***************************************************************************)
(* HelixValidator                                                          *)
(***************************************************************************)
\* validateFile(filePath) up to its first suspension, `await stat(resolved)`
StartValidateFile(c, filePath) ==
  /\ ~InFlight(c)
  /\ calls' = [calls EXCEPT ![c] =
                 [IdleCall EXCEPT !.pc = "stat", !.op = "validateFile",
                                  !.resolved = Resolve(filePath)]]
  /\ UNCHANGED << registry, options, cache, clock, fs >>

\* validateConfig on the documents and options explored, computed once
Validated ==
  [config \in Docs |-> [opts \in AllOptions |-> validateConfig(config, opts)]]

\* what validateFile returns for the loaded config, or the TypeError that
\* validateConfig throws through it
FileOutcome(config, opts) ==
  LET result == Validated[config][opts]
  IN  IF result.kind = "throw" THEN result ELSE [result EXCEPT !.timed = TRUE]

\* the error with which stat or the isFile test fails, NotSet when they pass
StatError(file) ==
  CASE file.kind = "missing" -> "ENOENT"
    [] file.kind = "dir" -> "Path is not a file"
    [] OTHER -> NotSet

\* the error with which readFile or JSON.parse fails, NotSet when they pass
ReadError(file) ==
  CASE file.kind = "missing" -> "ENOENT"
    [] file.kind = "dir" -> "EISDIR"
    [] file.kind = "noperm" -> "EACCES"
    [] ParseThrows(file.text) -> "SyntaxError"
    [] OTHER -> NotSet

\* stat returns: from the isFile test to the second suspension,
\* `await readFile(resolved)`, or to the return on a load error or on a hit
StatReturns(c) ==
  LET call == calls[c]
      key == call.resolved
      file == fs[key]
      now == clock
      found == Lookup(cache, key, now, file.mtime)
  IN  /\ call.pc = "stat"
      /\ IF StatError(file) # NotSet
           THEN /\ calls' = [calls EXCEPT ![c] =
                               DoneCall(call, LoadErrorResult(StatError(file), options))]
                /\ cache' = cache
         ELSE IF found = "hit"
           THEN /\ calls' = [calls EXCEPT ![c] =
                               DoneCall([call EXCEPT !.lookup = found],
                                        FileOutcome(CacheGet(cache, key).config, options))]
                /\ cache' = cache
         ELSE /\ cache' = Evict(cache)
              /\ calls' = [calls EXCEPT ![c] =
                             [call EXCEPT !.pc = "read", !.statsMtime = file.mtime,
                                          !.now = now, !.lookup = found,
                                          !.firstKey = EvictedKey(cache),
                                          !.firstTimestamp =
                                            IF EvictedKey(cache) # 0
                                              THEN CacheGet(cache, EvictedKey(cache)).timestamp
                                              ELSE 0,
                                          !.didRead = TRUE]]
      /\ UNCHANGED << registry, options, clock, fs >>

\* readFile returns: JSON.parse, cache.set and the validation, to the return
ReadReturns(c) ==
  LET call == calls[c]
      key == call.resolved
      file == fs[key]
      config == JSONParse(file.text)
      outcome == FileOutcome(config, options)
  IN  /\ call.pc = "read"
      /\ IF ReadError(file) # NotSet
           THEN /\ calls' = [calls EXCEPT ![c] =
                               DoneCall(call, LoadErrorResult(ReadError(file), options))]
                /\ cache' = cache
           ELSE /\ cache' = CacheSet(cache,
                              CacheEntry(key, config, call.now, call.statsMtime, clock,
                                         Ended(outcome)))
                /\ calls' = [calls EXCEPT ![c] = DoneCall(call, outcome)]
      /\ UNCHANGED << registry, options, clock, fs >>

\* a validateConfig that validates the oldest cached document when the
\* cache holds one
CallValidateConfig_ServesCached(c, config) ==
  /\ ~InFlight(c)
  /\ calls' = [calls EXCEPT ![c] =
                 DoneCall([IdleCall EXCEPT !.op = "validateConfig", !.config = config],
                          Validated[IF cache = << >> THEN config ELSE cache[1].config][options])]
  /\ UNCHANGED << registry, options, cache, clock, fs >>

\* validateConfig(config), called directly: it is synchronous
CallValidateConfig(c, config) ==
  /\ ~InFlight(c)
  /\ calls' = [calls EXCEPT ![c] =
                 DoneCall([IdleCall EXCEPT !.op = "validateConfig", !.config = config],
                          Validated[config][options])]
  /\ UNCHANGED << registry, options, cache, clock, fs >>

\* a clearCache that deletes the oldest entry only
\* What validateSchema and evaluateRules, called on their own, end with:
\* the issues (kind "issues"), or the TypeError of reading a property of
\* null or undefined, or of calling toLowerCase on a name that has none
IssuesOutcome(issues) == [NoOutcome EXCEPT !.kind = "issues", !.issues = issues]

SchemaOutcome(config) ==
  IF config.t \in {"null", "undefined"} THEN Thrown("TypeError")
  ELSE IssuesOutcome(validateSchema(config))

RulesOutcome(config, rulesetName) ==
  IF ValidateThrows(config) THEN Thrown("TypeError")
  ELSE IssuesOutcome(evaluateRules(config, rulesetName))

\* validateConfig(config), validateSchema(config) and
\* evaluateRules(config, {name: options.ruleset}) on the document of caller c
ApplyValidateConfig(c) ==
  /\ calls[c].pc = "idle"
  /\ calls' = [calls EXCEPT ![c] =
                 DoneCall([calls[c] EXCEPT !.op = "validateConfig"],
                          validateConfig(calls[c].config, options))]
  /\ UNCHANGED << registry, options, cache, clock, fs >>

ApplyValidateSchema(c) ==
  /\ calls[c].pc = "idle"
  /\ calls' = [calls EXCEPT ![c] =
                 DoneCall([calls[c] EXCEPT !.op = "validateSchema"],
                          SchemaOutcome(calls[c].config))]
  /\ UNCHANGED << registry, options, cache, clock, fs >>

ApplyEvaluateRules(c) ==
  /\ calls[c].pc = "idle"
  /\ calls' = [calls EXCEPT ![c] =
                 DoneCall([calls[c] EXCEPT !.op = "evaluateRules"],
                          RulesOutcome(calls[c].config, options.ruleset))]
  /\ UNCHANGED << registry, options, cache, clock, fs >>

clearCache_DeletesOne ==
  /\ cache' = IF cache = << >> THEN cache ELSE Tail(cache)
  /\ UNCHANGED << registry, options, clock, fs, calls >>

clearCache ==
  /\ cache' = << >>
  /\ UNCHANGED << registry, options, clock, fs, calls >>

\* getCacheStats()
getCacheStats == [size |-> Len(cache), maxSize |-> maxCacheSize]

(***************************************************************************)
(* Specifications                                                          *)
(***************************************************************************)
\* One caller, whose calls do not overlap: clearCache and validateConfig run
\* between two validateFile calls.  Time passes and the volatile files change
\* at any moment, also while a call is suspended.
Next ==
  \/ \E d \in TickSteps : Tick(d)
  \/ \E p \in Volatile, text \in WrittenTexts : WriteFile(p, text)
  \/ \E p \in Volatile : Unlink(p)
  \/ \E p \in Volatile : Mkdir(p)
  \/ \E p \in Volatile : Chmod(p)
  \/ \E filePath \in FilePaths : StartValidateFile(1, filePath)
  \/ StatReturns(1)
  \/ ReadReturns(1)
  \/ \E config \in Docs : CallValidateConfig(1, config)
  \/ ~InFlight(1) /\ clearCache

Spec == Init /\ [][Next]_vars

\* the same caller, for a validator constructed with any options
InitAll == InitWith(AllOptions)

SpecAll == InitAll /\ [][Next]_vars

\* The pure functions: a validator with any options and a document of the
\* document space, on which one of the three functions is applied.
InitDocs ==
  /\ options \in AllOptions
  /\ cache = << >>
  /\ clock = 0
  /\ fs = [p \in Paths |-> [kind |-> "missing", mtime |-> 0, text |-> Malformed]]
  /\ calls \in { [c \in Procs |-> IF c = 1 THEN [IdleCall EXCEPT !.config = config]
                                  ELSE IdleCall] : config \in DocSpace }
  /\ registry = EmptyRegistry

NextDocs ==
  \/ ApplyValidateConfig(1)
  \/ ApplyValidateSchema(1)
  \/ ApplyEvaluateRules(1)

SpecDocs == InitDocs /\ [][NextDocs]_vars

\* Concurrent callers of one validator with the default options: a call
\* suspended at stat or at readFile lets the other callers, and clearCache,
\* run.  The volatile files are rewritten while the calls are in flight.
InitConc == InitWith({ Options(FALSE, NotSet, NotSet) })

NextConc ==
  \/ \E d \in TickSteps : Tick(d)
  \/ \E p \in Volatile, text \in WrittenTexts : WriteFile(p, text)
  \/ \E c \in Procs, filePath \in FilePaths : StartValidateFile(c, filePath)
  \/ \E c \in Procs : StatReturns(c)
  \/ \E c \in Procs : ReadReturns(c)
  \/ clearCache

SpecConc == InitConc /\ [][NextConc]_vars

\* Repeated validateConfig calls: two callers pass documents to
\* validateConfig, at any moment between the steps of the first caller's
\* validateFile calls and the clearCache calls.
NextRepeat ==
  \/ \E filePath \in FilePaths : StartValidateFile(1, filePath)
  \/ StatReturns(1)
  \/ ReadReturns(1)
  \/ \E c \in Procs, config \in Docs : CallValidateConfig(c, config)
  \/ clearCache

SpecRepeat == Init /\ [][NextRepeat]_vars

\* The plugin registry: plugins are registered and removed between
\* validateAll calls, and each plugin's validate ends in any of the ways of
\* PluginResults.
NextPlugins ==
  \/ \E name \in PluginNames : register(name)
  \/ \E name \in PluginNames : unregister(name)
  \/ clear
  \/ StartValidateAll
  \/ \E result \in PluginResults : PluginSettles(result)

SpecPlugins == InitConc /\ [][NextPlugins]_vars

(***************************************************************************)
(* Properties                                                              *)
(***************************************************************************)
HasSeverity(issues, severity) == \E i \in DOMAIN issues : issues[i].severity = severity

\* the result validateFile returns when the config could not be loaded
IsLoadError(outcome) ==
  /\ outcome.kind = "result"
  /\ Len(outcome.issues) = 1
  /\ outcome.issues[1].rule = "io/load-error"

\* a validateFile call that ended with the validation of a loaded config
Validates(call) ==
  /\ call.pc = "done"
  /\ call.op = "validateFile"
  /\ call.outcome.kind = "result"
  /\ ~IsLoadError(call.outcome)

\* the steps in which stat and readFile return to the call of caller c
StatStep(c) == calls[c].pc = "stat" /\ calls'[c].pc # "stat"
ReadStep(c) == calls[c].pc = "read" /\ calls'[c].pc # "read"

\* stat succeeds on a regular file, readable or not; readFile and JSON.parse
\* succeed on a readable file with well-formed JSON
StatPasses(p) == fs[p].kind \in {"file", "noperm"}
LoadPasses(p) == fs[p].kind = "file" /\ fs[p].text # Malformed

----------------------------------------------------------------------------
\* C1: every ValidationResult a validator returns, from validateFile and
\* from validateConfig and whatever its options, has ok = false exactly when
\* it holds an issue of severity error, or the validator is strict and it
\* holds an issue of severity warn; issues of severity info do not count.
C1_OkIffErrorOrStrictWarn ==
  \A c \in Procs :
    LET result == calls[c].outcome
    IN  result.kind = "result" =>
          (result.ok = FALSE <=>
             \/ HasSeverity(result.issues, "error")
             \/ options.strict /\ HasSeverity(result.issues, "warn"))

\* a strict validator returned ok = false from validateFile for a config
\* with a warning and no error
C1_StrictWarnFails ==
  \E c \in Procs :
    /\ Validates(calls[c])
    /\ options.strict
    /\ HasSeverity(calls[c].outcome.issues, "warn")
    /\ ~HasSeverity(calls[c].outcome.issues, "error")
    /\ calls[c].outcome.ok = FALSE

----------------------------------------------------------------------------
\* C2: validateFile never throws: whatever the file holds, the call ends
\* with a ValidationResult.
C2_ValidateFileNeverThrows ==
  \A c \in Procs :
    calls[c].op = "validateFile" => calls[c].outcome.kind # "throw"

----------------------------------------------------------------------------
\* C3: when the file cannot be loaded (stat fails, the path is not a regular
\* file, readFile fails or the text is not JSON), validateFile returns a
\* result with ok = false and exactly one issue, of severity error, rule
\* io/load-error and path $file, in the configured format, text by default.
C3_LoadErrorResult ==
  [][\A c \in Procs :
       LET p == calls[c].resolved
           result == calls'[c].outcome
       IN  (\/ StatStep(c) /\ ~StatPasses(p)
            \/ ReadStep(c) /\ ~LoadPasses(p))
           => /\ calls'[c].pc = "done"
              /\ result.kind = "result"
              /\ result.ok = FALSE
              /\ Len(result.issues) = 1
              /\ result.issues[1].severity = "error"
              /\ result.issues[1].rule = "io/load-error"
              /\ result.issues[1].path = << "$file" >>
              /\ result.format = IF options.format = NotSet THEN "text"
                                 ELSE options.format
              /\ cache' = cache]_vars

\* a validator with the json format returned the load error for JSON that
\* does not parse
C3_ParseErrorReported ==
  \E c \in Procs :
    /\ calls[c].pc = "done"
    /\ IsLoadError(calls[c].outcome)
    /\ calls[c].outcome.issues[1].message = << "Failed to load config: ", "SyntaxError" >>
    /\ calls[c].outcome.format = "json"

----------------------------------------------------------------------------
----------------------------------------------------------------------------
\* C5: when the file's modification time differs from the one in the cache
\* entry, the call is not served from the cache whatever the entry's age: it
\* reads the file, validates the document it read, and stores it under the
\* path with the modification time it saw and the time of its lookup.
C5_ModifiedFileReloaded ==
  [][\A c \in Procs :
       LET p == calls[c].resolved
           read == JSONParse(fs[p].text)
       IN  /\ (/\ StatStep(c)
               /\ StatPasses(p)
               /\ CacheHas(cache, p)
               /\ CacheGet(cache, p).mtime # fs[p].mtime)
              => /\ calls'[c].pc = "read"
                 /\ calls'[c].didRead
                 /\ calls'[c].lookup = "stale"
           /\ (/\ ReadStep(c)
               /\ calls[c].lookup = "stale"
               /\ LoadPasses(p))
              => /\ calls'[c].outcome = FileOutcome(read, options)
                 /\ CacheHas(cache', p)
                 /\ CacheGet(cache', p).config = read
                 /\ CacheGet(cache', p).mtime = calls[c].statsMtime
                 /\ CacheGet(cache', p).timestamp = calls[c].now]_vars

\* at time 0, with the entry of age 0, a call found the file modified,
\* read it and stored the new document with the new modification time
C5_YoungEntryReplaced ==
  \E c \in Procs :
    /\ Validates(calls[c])
    /\ calls[c].lookup = "stale"
    /\ calls[c].didRead
    /\ clock = 0
    /\ CacheHas(cache, calls[c].resolved)
    /\ CacheGet(cache, calls[c].resolved).mtime = fs[calls[c].resolved].mtime
    /\ CacheGet(cache, calls[c].resolved).mtime > 0
    /\ CacheGet(cache, calls[c].resolved).config = JSONParse(fs[calls[c].resolved].text)

----------------------------------------------------------------------------
\* C6: a call is served from the cache only when the entry's age, now minus
\* its timestamp, is under 5000 ms; at an age of 5000 ms or more the call
\* reads the file although the modification time is unchanged, and stores
\* the entry anew with the time of its lookup; a hit changes nothing in the
\* cache, the entry's timestamp included.
C6_ServedOnlyWithinTtl ==
  [][\A c \in Procs :
       LET p == calls[c].resolved
       IN  /\ (StatStep(c) /\ calls'[c].lookup = "hit")
              => /\ CacheHas(cache, p)
                 /\ clock - CacheGet(cache, p).timestamp < cacheTtl
                 /\ cache' = cache
           /\ (/\ StatStep(c)
               /\ StatPasses(p)
               /\ CacheHas(cache, p)
               /\ clock - CacheGet(cache, p).timestamp >= cacheTtl)
              => /\ calls'[c].pc = "read"
                 /\ calls'[c].didRead
           /\ (/\ ReadStep(c)
               /\ calls[c].lookup = "expired"
               /\ LoadPasses(p))
              => /\ CacheHas(cache', p)
                 /\ CacheGet(cache', p).timestamp = calls[c].now]_vars

\* a call found an entry exactly 5000 ms old with the modification time
\* unchanged, read the file and stored the entry with the new time
C6_ExpiredEntryReloaded ==
  \E c \in Procs :
    /\ Validates(calls[c])
    /\ calls[c].lookup = "expired"
    /\ calls[c].didRead
    /\ CacheHas(cache, calls[c].resolved)
    /\ CacheGet(cache, calls[c].resolved).timestamp = cacheTtl
    /\ CacheGet(cache, calls[c].resolved).mtime = fs[calls[c].resolved].mtime

----------------------------------------------------------------------------
\* C7: with one caller whose validateFile and clearCache calls do not
\* overlap, getCacheStats().size is between 0 and maxSize in every state.
C7_SizeWithinBounds ==
  /\ getCacheStats.size >= 0
  /\ getCacheStats.size <= getCacheStats.maxSize

\* a call that evicted a key has ended and the cache is full again
C7_FullAfterEviction ==
  \E c \in Procs :
    /\ calls[c].pc = "done"
    /\ calls[c].firstKey # 0
    /\ getCacheStats.size = getCacheStats.maxSize

----------------------------------------------------------------------------
\* C8: with concurrent validateFile calls on one validator, the number of
\* cache entries never exceeds maxSize.
C8_ConcurrentSizeWithinMax == Len(cache) <= maxCacheSize

----------------------------------------------------------------------------
----------------------------------------------------------------------------
\* C10: clearCache can always be called and leaves the cache with size 0; a
\* validateFile call that finds no entry for its path, as every call does
\* after clearCache until a call has read the path again, reads the file;
\* getCacheStats().maxSize is the configured maximum in every state.
C10_ClearCacheEmpties ==
  /\ [](getCacheStats.maxSize = maxCacheSize /\ ENABLED clearCache)
  /\ [][/\ (calls' = calls /\ cache' # cache) => getCacheStats'.size = 0
        /\ \A c \in Procs :
             LET p == calls[c].resolved
             IN  /\ (StatStep(c) /\ StatPasses(p) /\ ~CacheHas(cache, p))
                    => calls'[c].pc = "read" /\ calls'[c].didRead
                 /\ (StatStep(c) /\ calls'[c].lookup = "hit") => CacheHas(cache, p)
        /\ \A p \in Paths :
             (CacheHas(cache', p) /\ ~CacheHas(cache, p))
             => \E c \in Procs : ReadStep(c) /\ calls[c].resolved = p]_vars

\* the cache is empty after a call had read and cached its file
C10_ClearedAfterLoad ==
  /\ getCacheStats.size = 0
  /\ \E c \in Procs : Validates(calls[c]) /\ calls[c].didRead

----------------------------------------------------------------------------
HasRule(issues, rule) == \E i \in DOMAIN issues : issues[i].rule = rule
CountRule(issues, rule) == Cardinality({ i \in DOMAIN issues : issues[i].rule = rule })

\* caller c has applied the function op to its document
Applied(c, op) == calls[c].pc = "done" /\ calls[c].op = op

\* name is present (the document has the property) and is not a string
NameNotString(config) ==
  config.t = "object" /\ config.name.t \notin {"undefined", "string"}

\* C11: validateConfig returns a ValidationResult for every document; for a
\* document whose name is present but not a string the result holds the
\* schema/name-type issue.
C11_ValidateConfigAlwaysReturns ==
  \A c \in Procs :
    Applied(c, "validateConfig")
    => /\ calls[c].outcome.kind = "result"
       /\ (NameNotString(calls[c].config) /\ Truthy(calls[c].config.name))
          => HasRule(calls[c].outcome.issues, "schema/name-type")

----------------------------------------------------------------------------
\* C12: for a rules value that is present and is not a non-array object (a
\* string, an array, a number, a boolean or null), evaluateRules reports
\* exactly what it reports for the same document with a rules mapping of
\* zero keys.
C12_NonObjectRulesAsZeroKeys ==
  \A c \in Procs :
    (/\ Applied(c, "evaluateRules")
     /\ calls[c].outcome.kind = "issues"
     /\ calls[c].config.rules.t \in {"string", "array", "number", "boolean", "null"})
    => calls[c].outcome.issues =
         evaluateRules([calls[c].config EXCEPT !.rules = RulesObj(<< >>)],
                       options.ruleset)

----------------------------------------------------------------------------
\* the issues of a rule at a path, and those of a severity other than sev
IssuesAt(issues, rule, path) ==
  { i \in DOMAIN issues : issues[i].rule = rule /\ issues[i].path = path }

\* C13: the strict-ruleset checks depend on the ruleset option alone.  With
\* ruleset "strict" a result for zero rule keys holds the error
\* ruleset/strict-min-rules and has ok = false, and for each rule whose value
\* is null or an empty object it holds exactly one warn
\* ruleset/strict-empty-value at rules.<key>; with any other ruleset, and
\* whatever the strict flag, the result holds neither rule.
C13_StrictRulesetChecks ==
  \A c \in Procs :
    LET result == calls[c].outcome
        issues == result.issues
        entries == OwnEntries(calls[c].config.rules)
    IN  (Applied(c, "validateConfig") /\ result.kind = "result")
        => IF options.ruleset = "strict"
             THEN /\ HasRule(issues, "ruleset/strict-min-rules") <=> Len(entries) = 0
                  /\ Len(entries) = 0
                     => /\ result.ok = FALSE
                        /\ \A i \in DOMAIN issues :
                             issues[i].rule = "ruleset/strict-min-rules"
                             => issues[i].severity = "error"
                  /\ \A e \in DOMAIN entries :
                       (\/ entries[e].v.t = "null"
                        \/ entries[e].v.t = "object" /\ entries[e].v.n = 0)
                       => /\ Cardinality(IssuesAt(issues, "ruleset/strict-empty-value",
                                                  RulePath(entries[e].k))) = 1
                          /\ \A i \in IssuesAt(issues, "ruleset/strict-empty-value",
                                               RulePath(entries[e].k)) :
                               issues[i].severity = "warn"
             ELSE /\ ~HasRule(issues, "ruleset/strict-min-rules")
                  /\ ~HasRule(issues, "ruleset/strict-empty-value")

\* with the strict ruleset and the strict flag unset, a result holds
\* ruleset/strict-empty-value for a null rule and has ok = true
C13_EmptyValueWarnsOnly ==
  \E c \in Procs :
    /\ Applied(c, "validateConfig")
    /\ calls[c].outcome.kind = "result"
    /\ options.ruleset = "strict"
    /\ ~options.strict
    /\ \E e \in DOMAIN OwnEntries(calls[c].config.rules) :
         OwnEntries(calls[c].config.rules)[e].v.t = "null"
    /\ HasRule(calls[c].outcome.issues, "ruleset/strict-empty-value")
    /\ calls[c].outcome.ok = TRUE

----------------------------------------------------------------------------
\* a string that passes every name check: non-empty, at most 64 characters,
\* of the name pattern, and not reserved
WellFormedName(name) ==
  /\ name.t = "string"
  /\ Len(name.s) >= 1
  /\ Len(name.s) <= maxNameLength
  /\ nameRegex(name.s)
  /\ ToLowerCase(name.s) \notin RESERVED_NAMES

\* a key that draws no per-key issue
WellFormedKey(key) ==
  /\ Len(key) <= MAX_RULE_KEY_LENGTH
  /\ keyFormatRegex(key)
  /\ \A p \in DOMAIN DEPRECATED_PATTERNS : ~Includes(ToLowerCase(key), DEPRECATED_PATTERNS[p])

\* {name: <well-formed>, rules: {<well-formed key>: {}}} and nothing else,
\* validated with strict = true and ruleset "strict"
StrictModeTestCase(c) ==
  /\ Applied(c, "validateConfig")
  /\ options.strict
  /\ options.ruleset = "strict"
  /\ WellFormedName(calls[c].config.name)
  /\ calls[c].config.version = Undefined
  /\ calls[c].config.metadata = Undefined
  /\ calls[c].config.rules.t = "object"
  /\ Len(calls[c].config.rules.e) = 1
  /\ WellFormedKey(calls[c].config.rules.e[1].k)
  /\ calls[c].config.rules.e[1].v = Obj(0)

----------------------------------------------------------------------------
\* the case-folded rule keys that occur more than once
CollidingKeys(keys) ==
  { ToLowerCase(keys[i]) : i \in { m \in DOMAIN keys :
      \E j \in DOMAIN keys : j # m /\ ToLowerCase(keys[j]) = ToLowerCase(keys[m]) } }

\* C15: a result holds as many ruleset/duplicate-rule issues as there are
\* distinct case-folded rule keys occurring more than once; each has severity
\* warn; a result whose only issues are duplicates has ok = true exactly
\* when the strict flag is unset.
C15_OneIssuePerDuplicateKey ==
  \A c \in Procs :
    LET result == calls[c].outcome
        issues == result.issues
    IN  (Applied(c, "validateConfig") /\ result.kind = "result")
        => /\ CountRule(issues, "ruleset/duplicate-rule")
                = Cardinality(CollidingKeys(RuleKeys(calls[c].config)))
           /\ \A i \in DOMAIN issues :
                issues[i].rule = "ruleset/duplicate-rule" => issues[i].severity = "warn"
           /\ (/\ Len(issues) > 0
               /\ \A i \in DOMAIN issues : issues[i].rule = "ruleset/duplicate-rule")
              => (result.ok <=> ~options.strict)

\* three keys that differ in case only gave one duplicate issue, the only
\* issue of a result with ok = true
C15_ThreeKeysOneIssue ==
  \E c \in Procs :
    /\ Applied(c, "validateConfig")
    /\ calls[c].outcome.kind = "result"
    /\ Len(RuleKeys(calls[c].config)) = 3
    /\ Cardinality(CollidingKeys(RuleKeys(calls[c].config))) = 1
    /\ Len(calls[c].outcome.issues) = 1
    /\ calls[c].outcome.issues[1].rule = "ruleset/duplicate-rule"
    /\ calls[c].outcome.ok = TRUE

----------------------------------------------------------------------------
\* C16: for every document whose name, case-folded, is one of default,
\* system, core, internal, root, admin, and whatever the options, the result
\* holds an issue with rule ruleset/reserved-name and severity error, and ok
\* is false; for a string name outside that set it holds no such issue.
C16_ReservedNameRejected ==
  \A c \in Procs :
    LET result == calls[c].outcome
        name == calls[c].config.name
    IN  (Applied(c, "validateConfig") /\ name.t = "string")
        => /\ result.kind = "result"
           /\ IF ToLowerCase(name.s) \in RESERVED_NAMES
                THEN /\ \E i \in DOMAIN result.issues :
                          /\ result.issues[i].rule = "ruleset/reserved-name"
                          /\ result.issues[i].severity = "error"
                     /\ result.ok = FALSE
                ELSE ~HasRule(result.issues, "ruleset/reserved-name")

\* a validator without the strict flag rejected the name "Default"
C16_MixedCaseReserved ==
  \E c \in Procs :
    /\ Applied(c, "validateConfig")
    /\ calls[c].config.name = Str(<< "D", "e", "f", "a", "u", "l", "t" >>)
    /\ ~options.strict
    /\ HasRule(calls[c].outcome.issues, "ruleset/reserved-name")
    /\ calls[c].outcome.ok = FALSE

----------------------------------------------------------------------------
\* C17: for every document without a name, whatever its other fields and
\* the options, validateConfig returns a result that holds an issue with
\* rule schema/name-required and has ok = false.
C17_MissingNameRejected ==
  \A c \in Procs :
    (/\ Applied(c, "validateConfig")
     /\ calls[c].config.t = "object"
     /\ calls[c].config.name = Undefined)
    => /\ calls[c].outcome.kind = "result"
       /\ HasRule(calls[c].outcome.issues, "schema/name-required")
       /\ calls[c].outcome.ok = FALSE

\* a document that lacks nothing but its name was rejected with
\* schema/name-required as its only issue
C17_OnlyNameMissing ==
  \E c \in Procs :
    /\ Applied(c, "validateConfig")
    /\ calls[c].config.name = Undefined
    /\ ~options.strict
    /\ Len(calls[c].outcome.issues) = 1
    /\ calls[c].outcome.issues[1].rule = "schema/name-required"
    /\ calls[c].outcome.ok = FALSE

----------------------------------------------------------------------------
----------------------------------------------------------------------------
\* the document of caller c as C19 describes it: a well-formed, non-reserved
\* name of at most 64 characters, no version or a valid semver version, and
\* a non-empty mapping of well-formed keys, distinct when case-folded and
\* free of the deprecated patterns; validated with the default options
CleanDocument(c) ==
  LET config == calls[c].config
      keys == RuleKeys(config)
  IN  /\ Applied(c, "validateConfig")
      /\ ~options.strict
      /\ options.ruleset = NotSet
      /\ WellFormedName(config.name)
      /\ \/ config.version = Undefined
         \/ config.version.t = "string" /\ semverRegex(config.version.s)
      /\ config.rules.t = "object"
      /\ Len(keys) >= 1
      /\ Len(keys) <= MAX_RULES_COUNT
      /\ \A i \in DOMAIN keys : WellFormedKey(keys[i])
      /\ CollidingKeys(keys) = {}

\* C19 (as stated): with the default options every such document is
\* validated with ok = true and an empty issue list.
C19_CleanDocumentNoIssues ==
  \A c \in Procs :
    CleanDocument(c)
    => /\ calls[c].outcome.kind = "result"
       /\ calls[c].outcome.ok = TRUE
       /\ calls[c].outcome.issues = << >>

\* C19 (amended): with the default options every such document whose
\* version, if any, has at most 32 characters and whose metadata is absent
\* or a non-null, non-array object is validated with ok = true and an empty
\* issue list; every such document, whatever its version length and
\* metadata, is validated with ok = true.
C19_CleanDocumentBoundedVersion ==
  \A c \in Procs :
    CleanDocument(c)
    => /\ calls[c].outcome.kind = "result"
       /\ calls[c].outcome.ok = TRUE
       /\ (/\ Len(calls[c].config.version.s) <= maxVersionLength
           /\ \/ calls[c].config.metadata = Undefined
              \/ calls[c].config.metadata.t = "object")
          => calls[c].outcome.issues = << >>

\* {name: "svc-a", version: "1.0.0", rules: {r1: {}}} was validated with the
\* default options: ok = true and no issue
C19_ExampleAccepted ==
  \E c \in Procs :
    /\ CleanDocument(c)
    /\ calls[c].config = DocClean
    /\ calls[c].outcome.ok = TRUE
    /\ calls[c].outcome.issues = << >>

----------------------------------------------------------------------------
\* C20: validateSchema classifies name for every value: absent gives
\* schema/name-required; present but not a string, the falsy 0 and false
\* included, gives schema/name-type and not schema/name-required; a string
\* gives schema/name-length exactly when longer than 64 characters and
\* schema/name-format exactly when it does not match the name pattern.
C20_NameClassification ==
  \A c \in Procs :
    LET issues == calls[c].outcome.issues
        name == calls[c].config.name
    IN  (Applied(c, "validateSchema") /\ calls[c].outcome.kind = "issues")
        => CASE name.t = "undefined" -> HasRule(issues, "schema/name-required")
             [] name.t = "string" ->
                  /\ HasRule(issues, "schema/name-length") <=> Len(name.s) > maxNameLength
                  /\ HasRule(issues, "schema/name-format") <=> ~nameRegex(name.s)
             [] OTHER ->
                  /\ HasRule(issues, "schema/name-type")
                  /\ ~HasRule(issues, "schema/name-required")

----------------------------------------------------------------------------
\* The check an issue comes from, by its rule: the four fields in the order
\* in which validateSchema takes them, then the rule engine.
StageOf(rule) ==
  CASE rule \in {"schema/name-required", "schema/name-type", "schema/name-length",
                 "schema/name-format"} -> 1
    [] rule \in {"schema/version-type", "schema/version-length",
                 "schema/version-semver"} -> 2
    [] rule \in {"schema/rules-required", "schema/rules-object",
                 "schema/rules-empty"} -> 3
    [] rule = "schema/metadata-type" -> 4
    [] OTHER -> 5

IssuesOfStage(issues, stage) == SelectSeq(issues, LAMBDA i : StageOf(i.rule) = stage)

\* the document that has the one field of config that a stage checks
OnlyField(config, stage) ==
  Config(IF stage = 1 THEN config.name ELSE Undefined,
         IF stage = 2 THEN config.version ELSE Undefined,
         IF stage = 3 THEN config.rules ELSE NoRules,
         IF stage = 4 THEN config.metadata ELSE Undefined)

\* C21: the issues validateConfig returns are the issues of validateSchema
\* followed by those of evaluateRules; the schema issues come in the order
\* name, version, rules, metadata; and the issues of each field are those
\* the field draws in a document that has no other field, so no field's
\* outcome suppresses another field's checks.
C21_SchemaThenRulesInFieldOrder ==
  \A c \in Procs :
    (Applied(c, "validateConfig") /\ calls[c].outcome.kind = "result")
    => LET issues == calls[c].outcome.issues
           config == calls[c].config
       IN  /\ \A i, j \in DOMAIN issues :
                i < j => StageOf(issues[i].rule) <= StageOf(issues[j].rule)
           /\ issues = validateSchema(config) \o evaluateRules(config, options.ruleset)
           /\ IssuesOfStage(issues, 5) = evaluateRules(config, options.ruleset)
           /\ \A stage \in 1..4 :
                IssuesOfStage(issues, stage) =
                  IssuesOfStage(validateSchema(OnlyField(config, stage)), stage)

\* validateConfig returned, for a document without a name, the name issue,
\* then a version issue, a rules issue, the metadata issue and an issue of
\* the rule engine
C21_AllStagesReported ==
  \E c \in Procs :
    /\ Applied(c, "validateConfig")
    /\ calls[c].outcome.kind = "result"
    /\ calls[c].config.name = Undefined
    /\ Len(calls[c].outcome.issues) = 5
    /\ [i \in 1..5 |-> StageOf(calls[c].outcome.issues[i].rule)] = << 1, 2, 3, 4, 5 >>
    /\ calls[c].outcome.issues[1].rule = "schema/name-required"

----------------------------------------------------------------------------
RECURSIVE SumOfCounts(_, _)
\* the sum of the counts of a parsed summary, its total left out
SumOfCounts(members, i) ==
  IF i > Len(members) THEN 0
  ELSE (IF members[i][1] = "total" THEN 0 ELSE members[i][2])
       + SumOfCounts(members, i + 1)

----------------------------------------------------------------------------
----------------------------------------------------------------------------
\* What the plugins visited from the i-th on are to contribute: one error
\* issue, whatever its message, for a plugin whose validate failed, and for
\* any other plugin the issues it returned, each rule prefixed by its name
AnyMessage == << "*" >>

RECURSIVE Contributions(_, _)
Contributions(visited, i) ==
  IF i > Len(visited) THEN << >>
  ELSE LET name == visited[i].name
           issues == visited[i].result.issues
       IN  (IF TryFails(visited[i].result)
              THEN << Issue(<< "$plugin" >>, AnyMessage, "error",
                            << "plugin/" >> \o name \o << "/error" >>) >>
              ELSE [k \in DOMAIN issues |->
                      [issues[k] EXCEPT !.rule = name \o << "/" >> \o @]])
           \o Contributions(visited, i + 1)

MatchesIssues(actual, expected) ==
  /\ Len(actual) = Len(expected)
  /\ \A i \in DOMAIN actual :
       /\ actual[i].path = expected[i].path
       /\ actual[i].severity = expected[i].severity
       /\ actual[i].rule = expected[i].rule
       /\ expected[i].message # AnyMessage => actual[i].message = expected[i].message

\* C24: validateAll never rejects; when it returns, every registered plugin
\* has been called, in the order of registration, and the issues are, plugin
\* after plugin, one error issue with path $plugin and rule
\* plugin/<name>/error for a plugin whose validate threw or rejected, and the
\* issues the plugin returned, with <name>/ before each rule, for any other.
C24_PluginFailuresIsolated ==
  /\ [](registry.outcome # "rejected")
  /\ [][(registry.pc = "await" /\ registry'.pc = "done")
        => /\ [i \in DOMAIN registry'.visited |-> registry'.visited[i].name]
                = registry.plugins
           /\ MatchesIssues(registry'.allIssues,
                            Contributions(registry'.visited, 1))]_vars

----------------------------------------------------------------------------
\* C25: with concurrent validateFile calls and files rewritten while calls
\* are in flight, each write giving the file a later modification time, a
\* call served from the cache validates the document that the file holds
\* when stat returns to the call: the entry it is served from holds that
\* document, also after a load that began before the last write has stored
\* its entry over a newer one.
C25_HitServesCurrentDocument ==
  [][\A c \in Procs :
       LET p == calls[c].resolved
       IN  (StatStep(c) /\ calls'[c].lookup = "hit")
           => /\ ~ParseThrows(fs[p].text)
              /\ CacheGet(cache, p).config = JSONParse(fs[p].text)
              /\ CacheGet(cache, p).mtime = fs[p].mtime
              /\ calls'[c].outcome = FileOutcome(JSONParse(fs[p].text), options)]_vars

\* a call was served from the entry of the rewritten file while a load of
\* the same path that saw the earlier modification time waits for its read
C25_HitBesideOlderLoad ==
  \E c, d \in Procs :
    /\ Validates(calls[c])
    /\ calls[c].lookup = "hit"
    /\ ~calls[c].didRead
    /\ fs[calls[c].resolved].mtime > 0
    /\ CacheHas(cache, calls[c].resolved)
    /\ CacheGet(cache, calls[c].resolved).mtime = fs[calls[c].resolved].mtime
    /\ calls[d].pc = "read"
    /\ calls[d].resolved = calls[c].resolved
    /\ calls[d].statsMtime < fs[calls[c].resolved].mtime

----------------------------------------------------------------------------
\* C26: a validateFile call that ends with the io/load-error result has left
\* the cache as it found it: the step in which it ends changes no entry, and
\* the call has evicted no key before, whatever the size of the cache.
C26_LoadErrorLeavesCache ==
  [][\A c \in Procs :
       ((StatStep(c) \/ ReadStep(c)) /\ IsLoadError(calls'[c].outcome))
       => /\ cache' = cache
          /\ calls'[c].firstKey = 0]_vars

----------------------------------------------------------------------------
\* C27: a validateFile call that finds an entry for its path, stale or
\* expired, and loads the file again changes the entry of that path only: the
\* entries of the other keys stay in the cache as they are, and the cache
\* holds as many entries after the reload as before it, also at maxSize.
C27_ReloadChangesOnlyItsEntry ==
  [][\A c \in Procs :
       LET p == calls[c].resolved
           others == { cache[i].key : i \in DOMAIN cache } \ {p}
       IN  /\ (StatStep(c) /\ calls'[c].lookup \in {"stale", "expired"})
              => \A k \in others : CacheHas(cache', k)
           /\ (ReadStep(c) /\ calls[c].lookup \in {"stale", "expired"} /\ LoadPasses(p))
              => /\ \A k \in others :
                      CacheHas(cache', k) /\ CacheGet(cache', k) = CacheGet(cache, k)
                 /\ Len(cache') = Len(cache) + (IF CacheHas(cache, p) THEN 0 ELSE 1)]_vars

----------------------------------------------------------------------------
----------------------------------------------------------------------------
\* C29: every ruleset/duplicate-rule issue that evaluateRules reports has
\* the path rules.<key> of a key of the document's rules mapping, one of the
\* keys that collide, also when none of the colliding keys is in lower case.
C29_DuplicatePathNamesAKey ==
  \A c \in Procs :
    (Applied(c, "evaluateRules") /\ calls[c].outcome.kind = "issues")
    => LET keys == RuleKeys(calls[c].config)
           issues == calls[c].outcome.issues
       IN  \A i \in DOMAIN issues :
             issues[i].rule = "ruleset/duplicate-rule"
             => \E m, n \in DOMAIN keys :
                  /\ m # n
                  /\ ToLowerCase(keys[m]) = ToLowerCase(keys[n])
                  /\ issues[i].path = RulePath(keys[m])

----------------------------------------------------------------------------
\* C30: for a validator with format json, the object parsed from the summary
\* of a result has, in its summary, the members errors, warnings, info and
\* total, and summary.info is the number of the result's issues of severity
\* info.
C30_JsonSummaryHasInfo ==
  \A c \in Procs :
    LET result == calls[c].outcome
        parsed == ParseSummary(result.summary)
    IN  (result.kind = "result" /\ result.format = "json")
        => /\ \A key \in {"errors", "warnings", "info", "total"} :
                HasMember(parsed.summary, key)
           /\ Member(parsed.summary, "info") = CountSeverity(result.issues, "info")

=============================================================================
